---- MODULE Spec2Model ----
(***************************************************************************)
(* State-machine model of the significance-test simulator                  *)
(* (src/src/simulate/generate.py, src/src/simulate/simulate.py,            *)
(* src/src/utils/utils.py).                                                *)
(*                                                                         *)
(* Numbers: a p-value p/PScale is the integer p in 0..PScale, alpha is an  *)
(* integer in the same unit, NaN is the integer -1.  The process-wide      *)
(* numpy RNG is a full-period congruential generator over 0..RngMod-1.     *)
(* A sample is the pair (its length, the RNG state it was drawn from): the *)
(* contents of a sample are a function of exactly these two and of the     *)
(* generator's parameters.  A scipy test is a deterministic function of    *)
(* the samples it is given.                                                *)
(***************************************************************************)
EXTENDS Integers, Sequences, FiniteSets, TLC

\* ------------------------------------------------------------- bounds
MaxIters == 2
MaxRuns == 2
MaxSampleSize == 10
MaxSeed == 1
MaxCalls == 1
PScale == 3
RngMod == 4

\* ------------------------------------------------------ input universes
Names == {"X", "Y"}
Kinds == {"norm", "lognorm", "gamma", "uniform"}
Families == {"t_test", "wilcoxon_test", "brunner_munzel_test"}
TMethods == {"welch", "student", "paired", "one-sample"}
WMethods == {"normal", "paired"}
BMMethods == {"normal"}
TestTypes == {"basic", "another_test", "add_sample"}
Bogus == "bogus"
\* The (family, method) pairs the application's menus offer.
Engines ==
    ({"t_test"} \X TMethods) \cup ({"wilcoxon_test"} \X WMethods)
        \cup ({"brunner_munzel_test"} \X BMMethods)

SampleSizes == {0, 1, MaxSampleSize}
Scales == {-1, 1}
Iters == {1, MaxIters}
Alphas == {1, PScale - 1}
None == -1
NaN == -1
Seeds == {None} \cup (1..MaxSeed)

\* ------------------------------------------------------------ the RNG
Advance(r) == (5 * r + 3) % RngMod

RECURSIVE AdvanceN(_, _)
AdvanceN(r, n) == IF n = 0 THEN r ELSE AdvanceN(Advance(r), n - 1)

\* np.random.seed(s): the state a given seed produces.
SeedState(s) == s % RngMod

\* Mutant: the seed is not passed on.
set_seed_Dropped(seed) == 0..(RngMod - 1)

\* set_seed(seed): the RNG states the call can leave; with seed None numpy
\* seeds from the operating system's entropy.
set_seed(seed) == IF seed = None THEN 0..(RngMod - 1) ELSE {SeedState(seed)}

\* ------------------------------------------------------------ values
NoSample == [n |-> 0, first |-> 0, set |-> FALSE]
NoGen == [cls |-> "absent", sample_size |-> 0, init_size |-> 0, scale |-> 0,
          func_param |-> {}]
NoRet == [num |-> 0, den |-> 0]
NoSim == [cls |-> "absent", family |-> "", method |-> "", test_funcs |-> "unset",
          test_type |-> "", iters |-> 0, alpha |-> 0, seed |-> None,
          p_values |-> << >>]

\* ------------------------------------------------ generate.py: generators
\* DistGenerator.__init__: the base class sets sample_size only; funcs and
\* func_param are declared and never assigned (scale 0 stands for "unset").
\* func_param holds the keyword names of the dict.
DistGenerator(sample_size) ==
    [cls |-> "DistGenerator", sample_size |-> sample_size,
     init_size |-> sample_size, scale |-> 0, func_param |-> {}]

\* The four distributions: super().__init__(sample_size), then funcs and
\* func_param.  scale is the distribution's scale/shape argument (sigma for
\* norm and lognorm, alpha and beta for gamma, b - a for uniform).
NormGenerator(sample_size, scale) ==
    [DistGenerator(sample_size) EXCEPT !.cls = "NormGenerator", !.scale = scale,
                                       !.func_param = {"loc", "scale"}]

LogNormGenerator(sample_size, scale) ==
    [DistGenerator(sample_size) EXCEPT !.cls = "LogNormGenerator", !.scale = scale,
                                       !.func_param = {"scale", "s"}]

GammaGenerator(sample_size, scale) ==
    [DistGenerator(sample_size) EXCEPT !.cls = "GammaGenerator", !.scale = scale,
                                       !.func_param = {"a", "scale"}]

UniGenerator(sample_size, scale) ==
    [DistGenerator(sample_size) EXCEPT !.cls = "UniGenerator", !.scale = scale,
                                       !.func_param = {"loc", "scale"}]

build_generator(name, sample_size, scale) ==
    CASE name = "norm" -> NormGenerator(sample_size, scale)
      [] name = "lognorm" -> LogNormGenerator(sample_size, scale)
      [] name = "gamma" -> GammaGenerator(sample_size, scale)
      [] name = "uniform" -> UniGenerator(sample_size, scale)
      [] OTHER -> DistGenerator(sample_size)

\* Mutant: the keyword is added to self.func_param itself, not to a copy.
CopyUpdate_Alias(g, key) == [g EXCEPT !.func_param = @ \cup {key}]

\* param = self.func_param.copy(); param.update(<key>=...): the generator
\* afterwards.  The keyword goes into the copy; the base class, which has no
\* func_param, raises before anything is copied.
CopyUpdate(g, key) == g

\* plot_range of the four distributions: the generator afterwards.  Each
\* copies func_param; all but the uniform one add a keyword to the copy.
plot_range(g) ==
    CASE g.cls = "NormGenerator" -> CopyUpdate(g, "confidence")
      [] g.cls \in {"LogNormGenerator", "GammaGenerator"} -> CopyUpdate(g, "q")
      [] OTHER -> g

\* DistGenerator.density_points on generator g: the exception it raises (the
\* base class's plot_range must be overridden) and the generator afterwards.
density_points(g) ==
    IF g.cls = "DistGenerator"
    THEN [err |-> "NotImplementedError", gen |-> g]
    ELSE [err |-> "none", gen |-> CopyUpdate(plot_range(g), "x")]

\* The generator after create_sample was called on it.
Sampled(g) ==
    IF g.cls \in {"absent", "DistGenerator"} THEN g ELSE CopyUpdate(g, "size")

\* scipy's rvs rejects a negative scale/shape ("Domain error in arguments").
RvsRejects(g) == g.scale < 0

\* DistGenerator.create_sample on generator g with the RNG in state r: the
\* exception it raises, the sample it returns, the RNG state it leaves.
create_sample(g, r) ==
    IF g.cls = "DistGenerator"
    THEN [err |-> "AttributeError", sample |-> NoSample, rng |-> r]
    ELSE IF RvsRejects(g)
    THEN [err |-> "ValueError", sample |-> NoSample, rng |-> r]
    ELSE [err |-> "none",
          sample |-> [n |-> g.sample_size, first |-> r, set |-> TRUE],
          rng |-> AdvanceN(r, g.sample_size)]

\* ------------------------------------------------ simulate.py: the engine
\* StatTestSimulator.__init__ (set_seed apart, see BuildSimulator).
StatTestSimulator(family, method, iters, test_type, alpha, seed) ==
    [cls |-> "StatTestSimulator", family |-> family, method |-> method,
     test_funcs |-> "unset", test_type |-> test_type, iters |-> iters,
     alpha |-> alpha, seed |-> seed, p_values |-> [i \in 1..iters |-> 0]]

\* Mutant: a method that is not one of the four falls back to Student's test.
TTestFuncs_Default(method) ==
    CASE method = "welch" -> "ttest_ind_welch"
      [] method = "paired" -> "ttest_rel"
      [] method = "one-sample" -> "ttest_1samp"
      [] OTHER -> "ttest_ind"

\* The method dispatch of TTestSimulator.__init__ : the test function, or
\* "raise" for the else branch.
TTestFuncs(method) ==
    CASE method = "welch" -> "ttest_ind_welch"
      [] method = "student" -> "ttest_ind"
      [] method = "paired" -> "ttest_rel"
      [] method = "one-sample" -> "ttest_1samp"
      [] OTHER -> "raise"

\* The method dispatch of WilcoxonTestSimulator.__init__.
WilcoxonFuncs(method) ==
    CASE method = "normal" -> "mannwhitneyu"
      [] method = "paired" -> "wilcoxon"
      [] OTHER -> "raise"

\* BrunnerMunzelTestSimulator.__init__ never looks at the method.
BrunnerMunzelFuncs(method) == "brunnermunzel"

\* build_simulator: the class picked by name, constructed; err is the
\* exception the constructor raises.
build_simulator(name, method, iters, test_type, alpha, seed) ==
    LET base == StatTestSimulator(name, method, iters, test_type, alpha, seed)
        made(cls, f) ==
            IF f = "raise"
            THEN [err |-> "ValueError", obj |-> NoSim]
            ELSE [err |-> "none",
                  obj |-> [base EXCEPT !.cls = cls, !.test_funcs = f]]
    IN  CASE name = "t_test" -> made("TTestSimulator", TTestFuncs(method))
          [] name = "wilcoxon_test" ->
                made("WilcoxonTestSimulator", WilcoxonFuncs(method))
          [] name = "brunner_munzel_test" ->
                made("BrunnerMunzelTestSimulator", BrunnerMunzelFuncs(method))
          [] OTHER -> [err |-> "none", obj |-> base]

\* `pvalue < alpha` (a comparison with NaN is false).
Significant(p, alpha) == p # NaN /\ p < alpha

\* `pvalue >= alpha` (a comparison with NaN is false).
NotSignificant(p, alpha) == p # NaN /\ p >= alpha

\* int(add_sample_ratio * sample_size) with add_sample_ratio = 1.1.
GrownSize(n) == (11 * n) \div 10

\* Whether the test function pairs its two samples element by element.
Paired(f) == f \in {"ttest_rel", "wilcoxon"}

\* The number a scipy test function derives from its samples.
Mix(f, a, b) ==
    (7 * a.first + 3 * (IF b.set THEN b.first ELSE 0) + a.n
       + 2 * (IF b.set THEN b.n ELSE 0) + Len(f)) % (PScale + 2)

\* self.test_funcs(**self.test_param): the exception raised or the pvalue.
\* Paired tests refuse samples of different length; a degenerate sample makes
\* the library raise; an empty sample gives a NaN p-value.
test_funcs(f, tp) ==
    IF f = "unset" THEN [err |-> "AttributeError", pvalue |-> NaN]
    ELSE IF Paired(f) /\ tp.a.n # tp.b.n
    THEN [err |-> "ValueError", pvalue |-> NaN]
    ELSE IF tp.a.n = 0 \/ (f # "ttest_1samp" /\ tp.b.n = 0)
    THEN [err |-> "none", pvalue |-> NaN]
    ELSE IF Mix(f, tp.a, tp.b) = PScale + 1
    THEN [err |-> "ValueError", pvalue |-> NaN]
    ELSE [err |-> "none", pvalue |-> Mix(f, tp.a, tp.b)]

\* Mutant: every class draws Y after X, the one-sample t-test too.
sample_update_DrawsY(s, gens, tp, r) ==
    LET draw(name, rr) ==
            IF gens[name].cls = "absent"
            THEN [err |-> "KeyError", sample |-> NoSample, rng |-> rr]
            ELSE create_sample(gens[name], rr)
        x == draw("X", r)
        y == draw("Y", x.rng)
    IN  IF s.cls = "StatTestSimulator"
        THEN [err |-> "NotImplementedError", tp |-> tp, rng |-> r, drawn |-> << >>]
        ELSE IF x.err # "none"
        THEN [err |-> x.err, tp |-> tp, rng |-> x.rng, drawn |-> <<"X">>]
        ELSE IF y.err # "none"
        THEN [err |-> y.err, tp |-> [tp EXCEPT !.a = x.sample],
              rng |-> y.rng, drawn |-> <<"X", "Y">>]
        ELSE [err |-> "none", tp |-> [a |-> x.sample, b |-> y.sample],
              rng |-> y.rng, drawn |-> <<"X", "Y">>]

\* sample_update of the engine's class: X is drawn, then Y unless the t-test
\* is one-sample; the base class raises NotImplementedError.  A generator
\* missing from the dict is a KeyError.
sample_update(s, gens, tp, r) ==
    LET draw(name, rr) ==
            IF gens[name].cls = "absent"
            THEN [err |-> "KeyError", sample |-> NoSample, rng |-> rr]
            ELSE create_sample(gens[name], rr)
        x == draw("X", r)
        y == draw("Y", x.rng)
    IN  IF s.cls = "StatTestSimulator"
        THEN [err |-> "NotImplementedError", tp |-> tp, rng |-> r, drawn |-> << >>]
        ELSE IF x.err # "none"
        THEN [err |-> x.err, tp |-> tp, rng |-> x.rng, drawn |-> <<"X">>]
        ELSE IF s.cls = "TTestSimulator" /\ s.method = "one-sample"
        THEN [err |-> "none", tp |-> [tp EXCEPT !.a = x.sample],
              rng |-> x.rng, drawn |-> <<"X">>]
        ELSE IF y.err # "none"
        THEN [err |-> y.err, tp |-> [tp EXCEPT !.a = x.sample],
              rng |-> y.rng, drawn |-> <<"X", "Y">>]
        ELSE [err |-> "none", tp |-> [a |-> x.sample, b |-> y.sample],
              rng |-> y.rng, drawn |-> <<"X", "Y">>]

\* Mutant: counts the p-values at or below alpha.
RECURSIVE count_nonzero_le(_, _)
count_nonzero_le(p, alpha) ==
    IF p = << >> THEN 0
    ELSE (IF Head(p) # NaN /\ Head(p) <= alpha THEN 1 ELSE 0)
         + count_nonzero_le(Tail(p), alpha)

\* np.count_nonzero(self.p_values < alpha), entry by entry.
RECURSIVE count_nonzero(_, _)
count_nonzero(p, alpha) ==
    IF p = << >> THEN 0
    ELSE (IF Significant(Head(p), alpha) THEN 1 ELSE 0)
         + count_nonzero(Tail(p), alpha)

\* StatTestSimulator.per_signicant: the quotient as (numerator, denominator).
per_signicant(s) ==
    [num |-> count_nonzero(s.p_values, s.alpha), den |-> s.iters]

\* deque(map(self.basic_patch, range(n))) as a function of the engine, the
\* generators, test_param and the RNG state it begins from: the exception
\* that ends it ("none" if it returns) and the p-values it writes, in order.
RECURSIVE basic_run(_, _, _, _, _)
basic_run(s, gens, tp, r, n) ==
    IF n = 0 THEN [err |-> "none", p_values |-> << >>]
    ELSE LET u == sample_update(s, gens, tp, r)
             t == test_funcs(s.test_funcs, u.tp)
             rest == basic_run(s, gens, u.tp, u.rng, n - 1)
         IN  IF u.err # "none" THEN [err |-> u.err, p_values |-> << >>]
             ELSE IF t.err # "none" THEN [err |-> t.err, p_values |-> << >>]
             ELSE [err |-> rest.err, p_values |-> <<t.pvalue>> \o rest.p_values]

VARIABLES
    generators,   \* the generators dict: name -> generator object (or NoGen)
    sim,          \* the engine object (or NoSim)
    rng,          \* state of the process-wide random number generator
    pc,           \* position inside execute()
    idx,          \* trial index of the running patch
    attempt,      \* attempt number inside the running patch
    saved,        \* add_sample_patch's local dict sample_size
    test_param,   \* self.test_param's samples
    pvalue,       \* pvalue of the patch's latest test_result
    error,        \* the exception the latest call raised ("none" if none)
    ret,          \* the latest return value of per_signicant (num, den)
    hist          \* history of the calls, for stating the properties

vars == << generators, sim, rng, pc, idx, attempt, saved, test_param, pvalue,
           error, ret, hist >>

\* ------------------------------------------------------------ history
\* hist records what the calls did, so that the properties can speak of it:
\*   kind         the name each generator was built from
\*   builds       build_simulator calls made
\*   req          family and method of the latest build_simulator call
\*   runs         execute() calls made;  returned: those that returned
\*   aborted      execute() calls that raised
\*   done         the latest execute() returned
\*   touched      the RNG was drawn from since the engine's set_seed
\*   start_rng    RNG state when the running/latest execute() began
\*   clean        touched was FALSE when that execute() began
\*   exec_size    sample sizes when that execute() began
\*   trial_size   sample sizes when the running/latest patch began
\*   order        trial indices written by that execute(), in order
\*   written      the p-values it wrote, in order
\*   updates, tests, drawn, first_p   sample_update calls, test calls, the
\*                generators drawn from and the first p-value of the
\*                running/latest patch
\*   last_p       the p-value the latest test call returned
\*   prev         the latest execute() that returned: where it began and
\*                what it recorded
\*   draws        create_sample calls made so far
\*   calls        create_sample calls made from outside the engine
\*   points       density_points calls made from outside the engine
Sizes(gens) == [g \in Names |-> gens[g].sample_size]

NoHist ==
    [kind |-> [g \in Names |-> ""], builds |-> 0,
     req |-> [family |-> "", method |-> ""], runs |-> 0, returned |-> 0,
     aborted |-> 0, done |-> FALSE, touched |-> FALSE, start_rng |-> 0, clean |-> FALSE,
     exec_size |-> [g \in Names |-> 0], trial_size |-> [g \in Names |-> 0],
     order |-> << >>, written |-> << >>, updates |-> 0, tests |-> 0,
     drawn |-> << >>, first_p |-> NaN, last_p |-> NaN,
     prev |-> [valid |-> FALSE, start_rng |-> 0,
               exec_size |-> [g \in Names |-> 0], p_values |-> << >>],
     draws |-> 0, calls |-> 0, points |-> 0]

Init ==
    /\ generators = [g \in Names |-> NoGen]
    /\ sim = NoSim
    /\ rng \in 0..(RngMod - 1)
    /\ pc = "idle"
    /\ idx = 0
    /\ attempt = 0
    /\ saved = [g \in Names |-> 0]
    /\ test_param = [a |-> NoSample, b |-> NoSample]
    /\ pvalue = NaN
    /\ error = "none"
    /\ ret = NoRet
    /\ hist = NoHist

\* ------------------------------------------------------------ actions
\* build_generator(kind, sample_size=..., <scale>=...) stored under `name`.
BuildGenerator(name, kind, sample_size, scale) ==
    /\ pc = "idle"
    /\ hist.builds = 0
    /\ generators[name].cls = "absent"
    /\ name = "Y" => generators["X"].cls # "absent"
    /\ generators' = [generators EXCEPT
                        ![name] = build_generator(kind, sample_size, scale)]
    /\ hist' = [hist EXCEPT !.kind[name] = kind]
    /\ error' = "none"
    /\ ret' = NoRet
    /\ UNCHANGED << sim, rng, pc, idx, attempt, saved, test_param, pvalue >>

\* build_simulator(name, test_info, generators, iters, test_type, seed):
\* StatTestSimulator.__init__ runs first (set_seed included), then the
\* subclass checks the method.
BuildSimulator(name, method, iters, test_type, alpha, seed) ==
    LET r == build_simulator(name, method, iters, test_type, alpha, seed)
    IN  /\ pc = "idle"
        /\ hist.builds = 0
        /\ generators["X"].cls # "absent"
        /\ rng' \in set_seed(seed)
        /\ sim' = r.obj
        /\ error' = r.err
        /\ ret' = NoRet
        /\ hist' = [hist EXCEPT !.builds = @ + 1, !.touched = FALSE,
                                !.req = [family |-> name, method |-> method]]
        /\ UNCHANGED << generators, pc, idx, attempt, saved, test_param, pvalue >>

\* generator.create_sample() called from outside the engine.
CreateSample(name) ==
    LET r == create_sample(generators[name], rng)
    IN  /\ pc = "idle"
        /\ generators[name].cls # "absent"
        /\ hist.calls + hist.points < MaxCalls
        /\ rng' = r.rng
        /\ error' = r.err
        /\ ret' = NoRet
        /\ generators' = [generators EXCEPT ![name] = Sampled(@)]
        /\ hist' = [hist EXCEPT !.calls = @ + 1, !.draws = @ + 1,
                                !.touched = TRUE]
        /\ UNCHANGED << sim, pc, idx, attempt, saved, test_param, pvalue >>

\* generator.density_points() called from outside the engine (the plots).
DensityPoints(name) ==
    LET r == density_points(generators[name])
    IN  /\ pc = "idle"
        /\ generators[name].cls # "absent"
        /\ hist.calls + hist.points < MaxCalls
        /\ generators' = [generators EXCEPT ![name] = r.gen]
        /\ error' = r.err
        /\ ret' = NoRet
        /\ hist' = [hist EXCEPT !.points = @ + 1]
        /\ UNCHANGED << sim, rng, pc, idx, attempt, saved, test_param, pvalue >>

\* simulator.per_signicant()
PerSignicant ==
    /\ pc = "idle"
    /\ sim.cls # "absent"
    /\ ret = NoRet
    /\ ret' = per_signicant(sim)
    /\ error' = "none"
    /\ UNCHANGED << generators, sim, rng, pc, idx, attempt, saved, test_param,
                    pvalue, hist >>

\* Mutant: the dispatch binds a patch for every test_type.
KnownTestType_Any(t) == TRUE

\* execute(): the dispatch on test_type.  With a test_type that is none of
\* the three, batch_func is unbound when map() reads it.
KnownTestType(t) == t \in {"basic", "another_test", "add_sample"}

\* hist when an execute() begins.
Began ==
    [hist EXCEPT !.start_rng = rng, !.clean = ~hist.touched,
                 !.exec_size = Sizes(generators), !.order = << >>,
                 !.written = << >>, !.done = FALSE,
                 !.prev = IF hist.done
                          THEN [valid |-> TRUE, start_rng |-> hist.start_rng,
                                exec_size |-> hist.exec_size,
                                p_values |-> sim.p_values]
                          ELSE @]

ExecuteCall ==
    /\ pc = "idle"
    /\ sim.cls # "absent"
    /\ hist.runs < MaxRuns
    /\ ret' = NoRet
    /\ idx' = 0
    /\ IF KnownTestType(sim.test_type)
       THEN /\ pc' = "patch"
            /\ error' = "none"
            /\ hist' = [Began EXCEPT !.runs = @ + 1]
       ELSE /\ pc' = "idle"
            /\ error' = "UnboundLocalError"
            /\ hist' = [Began EXCEPT !.runs = @ + 1, !.aborted = @ + 1]
    /\ UNCHANGED << generators, sim, rng, attempt, saved, test_param, pvalue >>

\* map() hands the next index of range(self.iters) to the patch; the patch
\* begins (add_sample_patch snapshots the sample sizes first).
PatchBegin ==
    /\ pc = "patch"
    /\ idx < sim.iters
    /\ pc' = "sample_update"
    /\ attempt' = 1
    /\ saved' = IF sim.test_type = "add_sample" THEN Sizes(generators) ELSE saved
    /\ hist' = [hist EXCEPT !.trial_size = Sizes(generators), !.updates = 0,
                            !.tests = 0, !.drawn = << >>, !.first_p = NaN]
    /\ UNCHANGED << generators, sim, rng, idx, test_param, pvalue, error, ret >>

\* range(self.iters) is exhausted: execute() returns.
ExecuteReturn ==
    /\ pc = "patch"
    /\ idx = sim.iters
    /\ pc' = "idle"
    /\ hist' = [hist EXCEPT !.returned = @ + 1, !.done = TRUE]
    /\ UNCHANGED << generators, sim, rng, idx, attempt, saved, test_param,
                    pvalue, error, ret >>

\* Mutant: an exception is swallowed and the patch carries on.
Propagate_Swallowed(err, to) == to

\* Neither the patches nor execute() catch anything: an exception raised in a
\* patch leaves map(), deque() and execute(); otherwise control goes on to
\* `to`.
Propagate(err, to) == IF err # "none" THEN "idle" ELSE to

\* self.sample_update(); an exception leaves the patch and execute().
SampleUpdate ==
    LET r == sample_update(sim, generators, test_param, rng)
    IN  /\ pc = "sample_update"
        /\ rng' = r.rng
        /\ test_param' = r.tp
        /\ error' = r.err
        /\ pc' = Propagate(r.err, "test")
        /\ hist' = [hist EXCEPT !.updates = @ + 1, !.drawn = @ \o r.drawn,
                      !.draws = @ + Len(r.drawn),
                      !.touched = @ \/ r.drawn # << >>,
                      !.aborted = IF r.err = "none" THEN @ ELSE @ + 1]
        /\ generators' = [g \in Names |->
                            IF \E i \in DOMAIN r.drawn : r.drawn[i] = g
                            THEN Sampled(generators[g]) ELSE generators[g]]
        /\ UNCHANGED << sim, idx, attempt, saved, pvalue, ret >>

\* Mutant: another_test_patch records after its first test.
AfterTest_NoRetry(test_type, att, p, alpha) ==
    CASE test_type = "basic" -> "record"
      [] test_type = "another_test" -> "record"
      [] test_type = "add_sample" ->
            IF att = 2 THEN "restore"
            ELSE IF NotSignificant(p, alpha) THEN "grow" ELSE "record"

\* Mutant: another_test_patch breaks on a p-value that is not below alpha.
AfterTest_BreakInverted(test_type, att, p, alpha) ==
    CASE test_type = "basic" -> "record"
      [] test_type = "another_test" ->
            IF ~Significant(p, alpha) \/ att = 2 THEN "record" ELSE "retry"
      [] test_type = "add_sample" ->
            IF att = 2 THEN "restore"
            ELSE IF NotSignificant(p, alpha) THEN "grow" ELSE "record"

\* Where a patch goes after a test that returned pvalue p.
AfterTest(test_type, att, p, alpha) ==
    CASE test_type = "basic" -> "record"
      [] test_type = "another_test" ->
            IF Significant(p, alpha) \/ att = 2 THEN "record" ELSE "retry"
      [] test_type = "add_sample" ->
            IF att = 2 THEN "restore"
            ELSE IF NotSignificant(p, alpha) THEN "grow" ELSE "record"

\* test_result = self.test_funcs(**self.test_param) and the branch on it.
TestCall ==
    LET r == test_funcs(sim.test_funcs, test_param)
        to == AfterTest(sim.test_type, attempt, r.pvalue, sim.alpha)
    IN  /\ pc = "test"
        /\ error' = r.err
        /\ pvalue' = IF r.err = "none" THEN r.pvalue ELSE pvalue
        /\ pc' = Propagate(r.err, IF to = "retry" THEN "sample_update" ELSE to)
        /\ attempt' = IF r.err = "none" /\ to = "retry" THEN 2 ELSE attempt
        /\ hist' = [hist EXCEPT !.tests = @ + 1,
                      !.last_p = IF r.err = "none" THEN r.pvalue ELSE @,
                      !.first_p = IF attempt = 1 /\ r.err = "none"
                                  THEN r.pvalue ELSE @,
                      !.aborted = IF r.err = "none" THEN @ ELSE @ + 1]
        /\ UNCHANGED << generators, sim, rng, idx, saved, test_param, ret >>

\* add_sample_patch: every generator's sample_size grows.
Grow ==
    /\ pc = "grow"
    /\ generators' = [g \in Names |->
                        [generators[g] EXCEPT !.sample_size = GrownSize(@)]]
    /\ attempt' = 2
    /\ pc' = "sample_update"
    /\ UNCHANGED << sim, rng, idx, saved, test_param, pvalue, error, ret, hist >>

\* Mutant: only generator X is set back.
RestoredSize_OnlyX(g, size, sv) == IF g = "X" THEN sv[g] ELSE size

\* add_sample_patch: every generator's sample_size is set back.
RestoredSize(g, size, sv) == sv[g]

Restore ==
    /\ pc = "restore"
    /\ generators' = [g \in Names |->
                        [generators[g] EXCEPT
                           !.sample_size = RestoredSize(g, @, saved)]]
    /\ pc' = "record"
    /\ UNCHANGED << sim, rng, idx, attempt, saved, test_param, pvalue, error,
                    ret, hist >>

\* Mutant: the patch writes one index too far (1-based indexing).
RecordAt_OffByOne(p_values, i, p) ==
    IF i + 2 \in DOMAIN p_values THEN [p_values EXCEPT ![i + 2] = p] ELSE p_values

\* self.p_values[idx] = pvalue; the patch returns.
RecordAt(p_values, i, p) == [p_values EXCEPT ![i + 1] = p]

Record ==
    /\ pc = "record"
    /\ sim' = [sim EXCEPT !.p_values = RecordAt(@, idx, pvalue)]
    /\ hist' = [hist EXCEPT !.order = Append(@, idx),
                            !.written = Append(@, pvalue)]
    /\ idx' = idx + 1
    /\ pc' = "patch"
    /\ UNCHANGED << generators, rng, attempt, saved, test_param, pvalue, error,
                    ret >>

Execute ==
    \/ ExecuteCall
    \/ PatchBegin
    \/ SampleUpdate
    \/ TestCall
    \/ Grow
    \/ Restore
    \/ Record
    \/ ExecuteReturn

Next ==
    \/ \E name \in Names, kind \in {"norm"}, n \in SampleSizes \ {0} :
          BuildGenerator(name, kind, n, 1)
    \/ \E e \in Engines, iters \in Iters, test_type \in TestTypes \cup {Bogus},
          alpha \in Alphas, seed \in Seeds :
          BuildSimulator(e[1], e[2], iters, test_type, alpha, seed)
    \/ \E name \in Names : CreateSample(name)
    \/ \E name \in Names : DensityPoints(name)
    \/ PerSignicant
    \/ Execute

Spec == Init /\ [][Next]_vars

\* The constructors over every name, known or not, each engine executed with
\* the basic patch.
NextBuild ==
    \/ \E name \in Names, kind \in Kinds \cup {Bogus}, n \in SampleSizes,
          scale \in Scales :
          BuildGenerator(name, kind, n, scale)
    \/ \E name \in Families \cup {Bogus},
          method \in TMethods \cup WMethods \cup {Bogus} :
          BuildSimulator(name, method, 1, "basic", 1, 1)
    \/ ExecuteCall
    \/ PatchBegin
    \/ SampleUpdate
    \/ TestCall
    \/ Record
    \/ ExecuteReturn

SpecBuild == Init /\ [][NextBuild]_vars

\* ------------------------------------------------------------ properties
\* A patch has just returned (its index is idx - 1).
PatchReturned == pc = "patch" /\ idx > 0

\* The latest execute() has returned.
Returned == pc = "idle" /\ hist.done

\* C1: with test_type "add_sample", when add_sample_patch(i) returns every
\* generator's sample_size is what it was when that trial began, whether the
\* trial made one attempt or two; so when execute() returns the sizes are
\* those it began with, and the configured ones if no execute() raised.
C1_SizesRestoredAfterTrial ==
    sim.test_type = "add_sample" =>
        /\ PatchReturned => Sizes(generators) = hist.trial_size
        /\ Returned => Sizes(generators) = hist.exec_size
        /\ (Returned /\ hist.aborted = 0) =>
              \A g \in Names : generators[g].sample_size = generators[g].init_size

\* C1 witness: a trial that grew the samples (10 -> 11) for a second attempt
\* has returned, and the sizes are back.
C1_Witness ==
    /\ sim.test_type = "add_sample"
    /\ PatchReturned
    /\ hist.tests = 2
    /\ hist.trial_size["X"] = MaxSampleSize
    /\ test_param.a.n = GrownSize(MaxSampleSize)
    /\ test_param.a.n > MaxSampleSize
    /\ generators["X"].sample_size = MaxSampleSize

\* C2: with test_type "another_test", a trial whose first p-value is below
\* alpha makes one sample_update and one test and records that p-value; a
\* trial whose first p-value is >= alpha makes two of each and records the
\* second p-value, whatever it is.
C2_RetryOnceRecordsSecond ==
    (sim.test_type = "another_test" /\ PatchReturned) =>
        /\ Significant(hist.first_p, sim.alpha) =>
              /\ hist.updates = 1
              /\ hist.tests = 1
              /\ sim.p_values[idx] = hist.first_p
        /\ NotSignificant(hist.first_p, sim.alpha) =>
              /\ hist.updates = 2
              /\ hist.tests = 2
              /\ sim.p_values[idx] = hist.last_p

\* C2 witness: a second attempt's p-value was recorded although it is larger
\* than the first attempt's.
C2_Witness ==
    /\ sim.test_type = "another_test"
    /\ PatchReturned
    /\ NotSignificant(hist.first_p, sim.alpha)
    /\ hist.tests = 2
    /\ sim.p_values[idx] > hist.first_p

\* C3: per_signicant returns the number of trial indices whose recorded
\* p-value is strictly below alpha, divided by N; a p-value equal to alpha is
\* not counted.
C3_RejectionRateCountsStrictlyBelow ==
    ret # NoRet =>
        /\ ret.num = Cardinality({i \in 1..sim.iters :
                                    /\ sim.p_values[i] # NaN
                                    /\ sim.p_values[i] < sim.alpha})
        /\ ret.den = sim.iters

\* C3 witness: the rate was taken of an array holding a p-value equal to
\* alpha and one below it.
C3_Witness ==
    /\ ret # NoRet
    /\ Returned
    /\ \E i, j \in 1..sim.iters :
          /\ sim.p_values[i] = sim.alpha
          /\ sim.p_values[j] # NaN
          /\ sim.p_values[j] < sim.alpha
    /\ ret.num = 1

\* C4: on a freshly constructed engine (alpha in (0,1)) per_signicant, called
\* before any execute(), returns 0 and does not raise: the zero placeholders
\* are not rejections.  (The code counts every placeholder: 0 < alpha.)
C4_RateBeforeExecuteIsZero ==
    (ret # NoRet /\ hist.runs = 0) =>
        /\ ret.num = 0
        /\ ret.den = sim.iters
        /\ error = "none"

\* C5: an execute() writes the indices 0, 1, 2, ... in this order, each once;
\* when it returns all N have been written, the array still has length N and
\* holds at every index the p-value this run wrote there (also on a second
\* execute() of the same engine).
C5_EachIndexWrittenOnceInOrder ==
    /\ \A k \in 1..Len(hist.order) : hist.order[k] = k - 1
    /\ Len(hist.written) = Len(hist.order)
    /\ sim.cls # "absent" => Len(sim.p_values) = sim.iters
    /\ Returned =>
          /\ Len(hist.order) = sim.iters
          /\ \A i \in 1..sim.iters : sim.p_values[i] = hist.written[i]

\* C5 witness: a second execute() of an engine with the largest N returned,
\* and it wrote something else than the first one.
C5_Witness ==
    /\ Returned
    /\ hist.returned = 2
    /\ sim.iters = MaxIters
    /\ hist.prev.valid
    /\ hist.prev.p_values # sim.p_values

\* The latest build_simulator call named a method its family does not list.
UnknownMethod(family, methods) ==
    /\ hist.builds > 0
    /\ hist.req.family = family
    /\ hist.req.method \notin methods

\* C6: constructing a t-test engine with a method outside {welch, student,
\* paired, one-sample}, or a rank-sum engine with a method outside {normal,
\* paired}, raises ValueError in the constructor: no engine exists, no
\* create_sample call was made and no execute() began.
C6_UnknownMethodRaisesAtConstruction ==
    (UnknownMethod("t_test", TMethods) \/ UnknownMethod("wilcoxon_test", WMethods)) =>
        /\ error = "ValueError"
        /\ sim = NoSim
        /\ hist.draws = 0
        /\ hist.runs = 0
        /\ pc = "idle"

\* C6 witness: a t-test engine was asked for with the rank-sum method
\* "normal", both generators being built, and ValueError was raised.
C6_Witness ==
    /\ UnknownMethod("t_test", TMethods)
    /\ hist.req.method = "normal"
    /\ \A g \in Names : generators[g].cls # "absent"
    /\ error = "ValueError"

\* C7: a Brunner-Munzel engine asked for with an unrecognized method is
\* refused with ValueError at construction, so that no engine of the three
\* families executes with a method its family does not list.
C7_BrunnerMunzelRejectsUnknownMethod ==
    /\ UnknownMethod("brunner_munzel_test", BMMethods) =>
          (error = "ValueError" /\ sim = NoSim)
    /\ (sim.family = "brunner_munzel_test" /\ hist.runs > 0) =>
          sim.method \in BMMethods

\* C8: build_generator with a kind outside {norm, lognorm, gamma, uniform} and
\* build_simulator with a family outside {t_test, wilcoxon_test,
\* brunner_munzel_test} fail at construction: no object comes back.
C8_UnknownKindOrFamilyFailsAtConstruction ==
    /\ \A g \in Names : generators[g].cls # "absent" => hist.kind[g] \in Kinds
    /\ sim.cls # "absent" => sim.family \in Families

\* C9: a generator of one of the four distributions built with a sample size
\* below 1 or a non-positive scale/shape is refused (or its size clamped) at
\* construction: no trial ever runs with such a generator.
C9_NoTrialWithInvalidGenerator ==
    pc \notin {"idle", "patch"} =>
        \A g \in Names :
            hist.kind[g] \in Kinds =>
                (generators[g].sample_size >= 1 /\ generators[g].scale > 0)

\* C10 as claimed: with a seed s, every execute() of the engine begins from
\* the RNG state that seeding with s produces.
C10_SeededAtEveryRun ==
    (sim.cls # "absent" /\ sim.seed # None /\ hist.runs > 0) =>
        hist.start_rng = SeedState(sim.seed)

\* C10 amended: with a seed s the RNG is seeded once, when the engine is
\* constructed: it is in the state of s until the first draw, an execute()
\* begins from that state if nothing drew from the RNG since construction,
\* and two execute() that returned after beginning from the same RNG state
\* with the same sample sizes recorded the same p-values.
C10_SeededAtConstruction ==
    /\ (sim.cls # "absent" /\ sim.seed # None /\ ~hist.touched) =>
          rng = SeedState(sim.seed)
    /\ (sim.cls # "absent" /\ sim.seed # None /\ hist.runs > 0 /\ hist.clean) =>
          hist.start_rng = SeedState(sim.seed)
    /\ (Returned /\ hist.prev.valid /\ hist.prev.start_rng = hist.start_rng
          /\ hist.prev.exec_size = hist.exec_size) =>
          sim.p_values = hist.prev.p_values

\* C10 witness: a seeded engine's first execute(), begun right after
\* construction, returned; its second one, begun from the same RNG state,
\* returned too.
C10_Witness ==
    /\ Returned
    /\ sim.seed # None
    /\ sim.iters = MaxIters
    /\ hist.returned = 2
    /\ hist.calls = 0
    /\ hist.prev.valid
    /\ hist.prev.start_rng = SeedState(sim.seed)
    /\ hist.start_rng = SeedState(sim.seed)

\* What the basic strategy records with the engine's configuration when it
\* begins from the RNG state the latest execute() began from.
BasicFromSameStart ==
    basic_run(sim, generators, [a |-> NoSample, b |-> NoSample],
              hist.start_rng, sim.iters)

\* C11: with the same configuration and the same RNG state to begin from (the
\* same seed), an execute() with the retry-once strategy that returns records
\* at least as many p-values below alpha as the basic strategy does (which
\* then returns too); and basic_run is what an execute() with the basic
\* strategy records.
C11_RetryOnceRejectsAtLeastAsOften ==
    /\ (Returned /\ sim.test_type = "another_test") =>
          /\ BasicFromSameStart.err = "none"
          /\ count_nonzero(sim.p_values, sim.alpha)
                >= count_nonzero(BasicFromSameStart.p_values, sim.alpha)
    /\ (Returned /\ sim.test_type = "basic") =>
          /\ BasicFromSameStart.err = "none"
          /\ sim.p_values = BasicFromSameStart.p_values

\* C11 witness: a seeded retry-once run of the largest N, begun right after
\* construction, returned with more rejections than the basic strategy gets
\* from the same seed.
C11_Witness ==
    /\ Returned
    /\ sim.test_type = "another_test"
    /\ sim.seed # None
    /\ hist.clean
    /\ sim.iters = MaxIters
    /\ count_nonzero(sim.p_values, sim.alpha)
          > count_nonzero(BasicFromSameStart.p_values, sim.alpha)
    /\ count_nonzero(BasicFromSameStart.p_values, sim.alpha) > 0

\* Whether the engine is the one-sample t-test.
OneSample == sim.cls = "TTestSimulator" /\ sim.method = "one-sample"

\* The create_sample calls of k attempts that each draw the generators in d.
RECURSIVE Attempts(_, _)
Attempts(d, k) == IF k = 0 THEN << >> ELSE d \o Attempts(d, k - 1)

\* C12: when a test is about to run, every attempt of the trial so far has
\* drawn exactly one sample from X and then exactly one from Y (two-sample and
\* paired families), or exactly one from X and none from Y (one-sample
\* t-test, which at no point of a trial calls create_sample on Y); the samples
\* handed to the test have the generators' current sizes.
C12_EachAttemptDrawsXThenY ==
    /\ pc = "test" =>
          /\ hist.updates = attempt
          /\ hist.drawn = Attempts(IF OneSample THEN <<"X">> ELSE <<"X", "Y">>,
                                   hist.updates)
          /\ test_param.a.set /\ test_param.a.n = generators["X"].sample_size
          /\ IF OneSample THEN ~test_param.b.set
             ELSE test_param.b.set
                  /\ test_param.b.n = generators["Y"].sample_size
    /\ (OneSample /\ pc # "idle") =>
          \A i \in DOMAIN hist.drawn : hist.drawn[i] # "Y"

\* C12 witness: a one-sample t-test with no generator Y is about to test the
\* sample of its second attempt.
C12_Witness ==
    /\ pc = "test"
    /\ OneSample
    /\ generators["Y"].cls = "absent"
    /\ hist.updates = 2
    /\ hist.drawn = <<"X", "X">>

\* The latest execute() was left by an exception raised inside a trial.
AbortedInTrial ==
    /\ pc = "idle"
    /\ hist.runs > 0
    /\ ~hist.done
    /\ KnownTestType(sim.test_type)

\* C13: an exception raised by the sampling or the test of trial i ends
\* execute() at once with that exception: nothing runs while an error is
\* pending, the failing call was the last call of the run (no further attempt,
\* no later trial), the indices written by the run are exactly 0..i-1 and
\* hold what the run wrote, and the entries at i and above are what they were
\* when the run began.
C13_ExceptionAbortsExecute ==
    /\ error # "none" => pc = "idle"
    /\ AbortedInTrial =>
          /\ idx < sim.iters
          /\ hist.order = [k \in 1..idx |-> k - 1]
          /\ \A k \in 1..idx : sim.p_values[k] = hist.written[k]
          /\ hist.aborted = 1 =>
                \A k \in (idx + 1)..sim.iters :
                   sim.p_values[k] = IF hist.prev.valid
                                     THEN hist.prev.p_values[k] ELSE 0
          /\ hist.updates = attempt
          /\ hist.tests \in {hist.updates - 1, hist.updates}
          /\ error # "none" =>
                IF hist.tests = hist.updates
                THEN error = test_funcs(sim.test_funcs, test_param).err
                ELSE \E r \in 0..(RngMod - 1) :
                        error = sample_update(sim, generators, test_param, r).err

\* C13 witness: the second execute() of an engine was left by the test of
\* trial 1 raising, after trial 0 was overwritten and with the entry of
\* trial 1 still holding the p-value of the first execute().
C13_Witness ==
    /\ AbortedInTrial
    /\ error = "ValueError"
    /\ idx = 1
    /\ hist.aborted = 1
    /\ hist.prev.valid
    /\ hist.order = <<0>>
    /\ sim.p_values[2] = hist.prev.p_values[2]
    /\ sim.p_values[1] # hist.prev.p_values[1]

\* C14: in a grow-sample trial the second attempt runs only after a first
\* p-value at or above alpha, samples every generator at floor(1.1 * n) for
\* its configured n, and floor(1.1 * n) is strictly larger than n; after a
\* significant first attempt the first p-value is what is recorded.
C14_SecondAttemptStrictlyLarger ==
    /\ (sim.test_type = "add_sample" /\ attempt = 2
          /\ pc \in {"sample_update", "test", "restore"}) =>
          /\ NotSignificant(hist.first_p, sim.alpha)
          /\ \A g \in Names : generators[g].cls # "absent" =>
                /\ generators[g].sample_size = GrownSize(saved[g])
                /\ generators[g].sample_size > saved[g]
          /\ pc # "sample_update" =>
                \A g \in Names : generators[g].cls # "absent" =>
                    (IF g = "X" THEN test_param.a.n ELSE test_param.b.n)
                        = generators[g].sample_size \/ (g = "Y" /\ OneSample)
    /\ (sim.test_type = "add_sample" /\ pc = "record" /\ attempt = 1) =>
          /\ hist.tests = 1
          /\ pvalue = hist.first_p
          /\ ~NotSignificant(pvalue, sim.alpha)

\* C15: when an exception raised inside a grow-sample trial has left
\* add_sample_patch and execute(), every generator's sample_size is what it
\* was when the trial began.
C15_SizesRestoredOnEveryExit ==
    (AbortedInTrial /\ sim.test_type = "add_sample") =>
        Sizes(generators) = hist.trial_size

\* C16: an engine whose test_type is none of basic, another_test and
\* add_sample is constructed without complaint, and each execute() of it
\* raises before any trial: no patch is ever entered, the engine draws no
\* sample, no p-value is written and no generator's sample_size changes.
C16_UnknownTestTypeFailsAtExecute ==
    (sim.cls # "absent" /\ sim.test_type \notin TestTypes) =>
        /\ pc = "idle"
        /\ hist.returned = 0
        /\ hist.aborted = hist.runs
        /\ hist.draws = hist.calls
        /\ hist.order = << >>
        /\ sim.p_values = [k \in 1..sim.iters |-> 0]
        /\ \A g \in Names : generators[g].sample_size = generators[g].init_size
        /\ (hist.runs > 0 /\ error # "none") => error = "UnboundLocalError"

\* C16 witness: an engine with an unknown test_type was constructed and its
\* execute() has just raised the unbound-name error.
C16_Witness ==
    /\ sim.cls # "absent"
    /\ sim.test_type = Bogus
    /\ hist.builds = 1
    /\ hist.runs = MaxRuns
    /\ error = "UnboundLocalError"
    /\ generators["Y"].cls # "absent"

\* C17: when X and Y have equal sample sizes as a grow-sample trial begins,
\* they have equal sizes at every point of the trial, the grown second attempt
\* included, and the two samples handed to the test have the same length (a
\* paired test is never refused for it); and create_sample and density_points
\* leave every generator's func_param as it was built and, grow-sample engines
\* apart, its sample_size too.
C17_EqualSizesStayEqual ==
    /\ (sim.test_type = "add_sample" /\ pc \notin {"idle", "patch"}
          /\ generators["Y"].cls # "absent"
          /\ hist.trial_size["X"] = hist.trial_size["Y"]) =>
          /\ generators["X"].sample_size = generators["Y"].sample_size
          /\ (pc = "test" /\ ~OneSample) => test_param.a.n = test_param.b.n
    /\ \A g \in Names :
          /\ generators[g].func_param =
                build_generator(hist.kind[g], generators[g].init_size,
                                generators[g].scale).func_param
             \/ generators[g].cls = "absent"
          /\ sim.test_type # "add_sample" =>
                generators[g].sample_size = generators[g].init_size

\* C17 witness: a paired engine whose generators were built with equal sizes
\* and plotted with density_points is about to test the samples of the grown
\* second attempt, which have the same, larger, length.
C17_Witness ==
    /\ sim.test_type = "add_sample"
    /\ Paired(sim.test_funcs)
    /\ pc = "test"
    /\ attempt = 2
    /\ hist.points > 0
    /\ hist.trial_size["X"] = hist.trial_size["Y"]
    /\ test_param.a.n = test_param.b.n
    /\ test_param.a.n > hist.trial_size["X"]
====
